---- MODULE Spec2Model ----
(***************************************************************************)
(* The modal editor of halfmoon: EditorState (src/src/editor_widget.rs)    *)
(* drives a tui_textarea::TextArea through the modes Normal, Insert,       *)
(* Visual and Operator(c).  EditorState::input hands one key token to      *)
(* EditorState::transition, which calls the TextArea primitives and        *)
(* returns a Transition that input applies to `mode` and `pending`.        *)
(*                                                                         *)
(* A line of text is a sequence of one-character strings, the buffer a     *)
(* sequence of lines; rows and columns count from 0 as in the code.        *)
(***************************************************************************)
EXTENDS Integers, Sequences, FiniteSets, TLC

\* Bounds of the model: the number of edits the history may hold, of lines
\* the buffer may have and of characters a line may have.  A key whose
\* handling would exceed one of them is not offered.
MaxHist == 3
MaxLines == 3
MaxLen == 2

\* The number of messages the chat's history may have.
MaxMsgs == 3

\* TextArea's default history capacity (History::new(50)), in force because
\* EditorState::default builds the editor with TextArea::default().
max_items == 50

None == -1
NoPos == <<>>

SetMin(S) == CHOOSE x \in S : \A y \in S : x <= y

(***************************************************************************)
(* Key tokens: Input { key, ctrl, .. }.  A key is Char(c), written as the  *)
(* one-character string c, or a named key.                                 *)
(***************************************************************************)
NamedKeys ==
    {"Null", "Esc", "Enter", "Backspace", "Left", "Right", "Up", "Down", "Home", "End"}

Key(k) == [key |-> k, ctrl |-> FALSE]
Ctrl(k) == [key |-> k, ctrl |-> TRUE]

IsChar(input) == input.key \notin NamedKeys

\* Input::default(): the Null key.
InputDefault == Key("Null")

(***************************************************************************)
(* Word classification of the motions w, e and b.                          *)
(***************************************************************************)
PunctChars == {"$", "^", ".", ",", "-"}

\* CharKind without the punctuation class.
CharKind_no_punct(c) == IF c = " " THEN "Space" ELSE "Other"

CharKind(c) ==
    IF c = " " THEN "Space"
    ELSE IF c \in PunctChars THEN "Punct"
    ELSE "Other"

find_word_start_forward(line, start_col) ==
    IF start_col >= Len(line) THEN None
    ELSE LET hits == {col \in (start_col + 1)..(Len(line) - 1) :
                        /\ CharKind(line[col + 1]) # "Space"
                        /\ CharKind(line[col]) # CharKind(line[col + 1])}
         IN IF hits = {} THEN None ELSE SetMin(hits)

find_word_inclusive_end_forward(line, start_col) ==
    IF start_col >= Len(line) THEN None
    ELSE LET hits == {col \in (start_col + 1)..(Len(line) - 1) :
                        /\ CharKind(line[col]) # "Space"
                        /\ CharKind(line[col + 1]) # CharKind(line[col])}
         IN IF hits # {} THEN SetMin(hits) - 1
            ELSE IF CharKind(line[Len(line)]) # "Space" THEN Len(line) - 1
            ELSE None

find_word_start_backward(line, start_col) ==
    IF start_col = 0 \/ Len(line) = 0 THEN None
    ELSE LET sc == IF start_col > Len(line) THEN Len(line) ELSE start_col
             hits == {i \in 1..(sc - 1) :
                        /\ CharKind(line[sc - i + 1]) # "Space"
                        /\ CharKind(line[sc - i]) # CharKind(line[sc - i + 1])}
         IN IF hits # {} THEN start_col - SetMin(hits)
            ELSE IF CharKind(line[1]) # "Space" THEN 0
            ELSE None

(***************************************************************************)
(* The TextArea: lines, cursor, selection anchor, yank register and the    *)
(* edit history.  An edit of the history is kept as the buffer and cursor  *)
(* it leads from and to, which is what its undo and redo restore.          *)
(***************************************************************************)
Piece(s) == [chunk |-> FALSE, text |-> <<s>>]
Chunk(c) == [chunk |-> TRUE, text |-> c]

\* The rows of text the input area shows: Constraint::Length(5) less the two
\* border rows of the block.
height == 3

\* row_top is the viewport's first row.
TextAreaDefault ==
    [lines |-> << <<>> >>, cursor |-> <<0, 0>>, selection_start |-> NoPos,
     yank |-> Piece(<<>>), edits |-> <<>>, index |-> 0, row_top |-> 0]

Row(ta) == ta.cursor[1]
Col(ta) == ta.cursor[2]
LineAt(ta, row) == ta.lines[row + 1]
CurLine(ta) == LineAt(ta, Row(ta))

\* fit_col without the clamp to the line's length.
fit_col_unclamped(col, line) == col

fit_col(col, line) == IF col < Len(line) THEN col ELSE Len(line)

PosLess(a, b) == a[1] < b[1] \/ (a[1] = b[1] /\ a[2] < b[2])

\* The row of CursorMove::InViewport: the cursor's row clamped to the rows
\* the viewport shows, then to the last line.
InViewportRow(row, top, n) ==
    LET r == IF row < top THEN top
             ELSE IF row > top + height - 1 THEN top + height - 1 ELSE row
    IN IF r < n - 1 THEN r ELSE n - 1

\* CursorMove::next_cursor: the new cursor, or NoPos when the move is refused.
next_cursor(m, ta) ==
    LET row == Row(ta)
        col == Col(ta)
        lines == ta.lines
        n == Len(lines)
        line == lines[row + 1]
    IN CASE m = "Forward" ->
              IF col >= Len(line)
              THEN (IF row + 1 < n THEN <<row + 1, 0>> ELSE NoPos)
              ELSE <<row, col + 1>>
         [] m = "Back" ->
              IF col = 0
              THEN (IF row = 0 THEN NoPos ELSE <<row - 1, Len(lines[row])>>)
              ELSE <<row, col - 1>>
         [] m = "Up" ->
              IF row = 0 THEN NoPos ELSE <<row - 1, fit_col(col, lines[row])>>
         [] m = "Down" ->
              IF row + 1 >= n THEN NoPos
              ELSE <<row + 1, fit_col(col, lines[row + 2])>>
         [] m = "Head" -> <<row, 0>>
         [] m = "End" -> <<row, Len(line)>>
         [] m = "Top" -> <<0, fit_col(col, lines[1])>>
         [] m = "Bottom" -> <<n - 1, fit_col(col, lines[n])>>
         [] m = "WordEnd" ->
              LET c == find_word_inclusive_end_forward(line, col + 1)
                  rows == {r \in (row + 1)..(n - 1) :
                             find_word_inclusive_end_forward(lines[r + 1], 0) # None}
              IN IF c # None THEN <<row, c>>
                 ELSE IF rows # {}
                 THEN <<SetMin(rows),
                        find_word_inclusive_end_forward(lines[SetMin(rows) + 1], 0)>>
                 ELSE <<n - 1, Len(lines[n])>>
         [] m = "WordForward" ->
              LET c == find_word_start_forward(line, col)
              IN IF c # None THEN <<row, c>>
                 ELSE IF row + 1 < n THEN <<row + 1, 0>>
                 ELSE <<row, Len(line)>>
         [] m = "WordBack" ->
              LET c == find_word_start_backward(line, col)
              IN IF c # None THEN <<row, c>>
                 ELSE IF row > 0 THEN <<row - 1, Len(lines[row])>>
                 ELSE <<row, 0>>
         [] m = "InViewport" ->
              <<InViewportRow(row, ta.row_top, n),
                fit_col(col, lines[InViewportRow(row, ta.row_top, n) + 1])>>

\* The second half of move_cursor: take the cursor next_cursor answered.
move_cursor_to(ta, c) == IF c = NoPos THEN ta ELSE [ta EXCEPT !.cursor = c]

move_cursor(ta, m) == move_cursor_to(ta, next_cursor(m, ta))

start_selection(ta) == [ta EXCEPT !.selection_start = ta.cursor]

\* Viewport::scroll by rows, saturating at row 0.
viewport_scroll(ta, rows) ==
    [ta EXCEPT !.row_top = IF ta.row_top + rows < 0 THEN 0 ELSE ta.row_top + rows]

\* TextArea::scroll: move the viewport, then the cursor into it.
scroll(ta, rows) == move_cursor(viewport_scroll(ta, rows), "InViewport")

\* The viewport's first row after a draw, which keeps the cursor's row shown.
next_scroll_top(prev_top, row) ==
    IF row < prev_top THEN row
    ELSE IF prev_top + height <= row THEN row + 1 - height
    ELSE prev_top

\* The draw of the TextArea between two events.
render(ta) == [ta EXCEPT !.row_top = next_scroll_top(ta.row_top, Row(ta))]

\* cancel_selection that leaves the anchor in place.
cancel_selection_keeps_anchor(ta) == ta

cancel_selection(ta) == [ta EXCEPT !.selection_start = NoPos]

\* push_history that keeps the undone edits instead of truncating them.
push_history_keep_redo(ta, from, before) ==
    LET edit == [lb |-> from.lines, cb |-> before,
                 la |-> ta.lines, ca |-> ta.cursor]
    IN [ta EXCEPT !.edits = SubSeq(ta.edits, 1, ta.index) \o <<edit>>
                            \o SubSeq(ta.edits, ta.index + 1, Len(ta.edits)),
                  !.index = ta.index + 1]

\* History::push on behalf of TextArea::push_history: `ta` already holds the
\* edited lines and cursor; `from` is the TextArea before the edit and
\* `before` the position the edit records as its cursor_before.
push_history(ta, from, before) ==
    LET edit == [lb |-> from.lines, cb |-> before,
                 la |-> ta.lines, ca |-> ta.cursor]
        full == Len(ta.edits) = max_items
        e1 == IF full THEN Tail(ta.edits) ELSE ta.edits
        i1 == IF full /\ ta.index > 0 THEN ta.index - 1 ELSE ta.index
        e2 == IF i1 < Len(e1) THEN SubSeq(e1, 1, i1) ELSE e1
    IN [ta EXCEPT !.edits = Append(e2, edit), !.index = i1 + 1]

\* The selected range taken apart: <<start, end>> with start before end, or
\* NoPos when nothing is selected.  Taking the range clears the anchor.
selection_range(ta) ==
    LET s == ta.selection_start
        e == ta.cursor
    IN IF s = NoPos \/ s = e THEN NoPos
       ELSE IF PosLess(s, e) THEN <<s, e>> ELSE <<e, s>>

Take(line, n) == SubSeq(line, 1, n)
Drop(line, n) == SubSeq(line, n + 1, Len(line))

\* The text between two positions, as the lines it spans.
RangeText(lines, s, e) ==
    IF s[1] = e[1]
    THEN << SubSeq(lines[s[1] + 1], s[2] + 1, e[2]) >>
    ELSE << Drop(lines[s[1] + 1], s[2]) >>
         \o SubSeq(lines, s[1] + 2, e[1])
         \o << Take(lines[e[1] + 1], e[2]) >>

RangeYank(lines, s, e) ==
    IF s[1] = e[1] THEN Piece(RangeText(lines, s, e)[1])
    ELSE Chunk(RangeText(lines, s, e))

delete_range(ta, s, e, should_yank) ==
    LET lines == ta.lines
        joined == Take(lines[s[1] + 1], s[2]) \o Drop(lines[e[1] + 1], e[2])
        newLines == SubSeq(lines, 1, s[1]) \o <<joined>>
                    \o SubSeq(lines, e[1] + 2, Len(lines))
        t1 == [ta EXCEPT !.lines = newLines, !.cursor = s,
                         !.yank = IF should_yank THEN RangeYank(lines, s, e)
                                  ELSE ta.yank]
    IN push_history(t1, ta, e)

\* delete_selection: [ta |-> the TextArea afterwards, done |-> its result].
delete_selection(ta, should_yank) ==
    LET r == selection_range(ta)
        t0 == cancel_selection(ta)
    IN IF r = NoPos THEN [ta |-> t0, done |-> FALSE]
       ELSE [ta |-> delete_range(t0, r[1], r[2], should_yank), done |-> TRUE]

\* copy that removes the selected text as cut does.
copy_removes_text(ta) == delete_selection(ta, TRUE).ta

copy(ta) ==
    LET r == selection_range(ta)
        t0 == cancel_selection(ta)
    IN IF r = NoPos THEN t0
       ELSE [t0 EXCEPT !.yank = RangeYank(ta.lines, r[1], r[2])]

cut(ta) == delete_selection(ta, TRUE).ta

\* insert_newline after its delete_selection.
insert_newline_at(t0) ==
    LET row == Row(t0)
        col == Col(t0)
        line == CurLine(t0)
        newLines == SubSeq(t0.lines, 1, row) \o << Take(line, col), Drop(line, col) >>
                    \o SubSeq(t0.lines, row + 2, Len(t0.lines))
        t1 == [t0 EXCEPT !.lines = newLines, !.cursor = <<row + 1, 0>>]
    IN push_history(t1, t0, <<row, col>>)

insert_newline(ta) == insert_newline_at(delete_selection(ta, FALSE).ta)

\* insert_char after its delete_selection.
insert_char_at(t0, c) ==
    LET row == Row(t0)
        col == Col(t0)
        line == CurLine(t0)
        t1 == [t0 EXCEPT !.lines[row + 1] = Take(line, col) \o <<c>> \o Drop(line, col),
                         !.cursor = <<row, col + 1>>]
    IN push_history(t1, t0, <<row, col>>)

insert_char(ta, c) == insert_char_at(delete_selection(ta, FALSE).ta, c)

insert_piece(ta, s) ==
    IF s = <<>> THEN ta
    ELSE LET row == Row(ta)
             col == Col(ta)
             line == CurLine(ta)
             t1 == [ta EXCEPT !.lines[row + 1] = Take(line, col) \o s \o Drop(line, col),
                              !.cursor = <<row, col + Len(s)>>]
         IN push_history(t1, ta, <<row, col>>)

insert_chunk(ta, chunk) ==
    LET row == Row(ta)
        col == Col(ta)
        line == CurLine(ta)
        k == Len(chunk)
        newLines == SubSeq(ta.lines, 1, row)
                    \o << Take(line, col) \o chunk[1] >>
                    \o SubSeq(chunk, 2, k - 1)
                    \o << chunk[k] \o Drop(line, col) >>
                    \o SubSeq(ta.lines, row + 2, Len(ta.lines))
        t1 == [ta EXCEPT !.lines = newLines,
                         !.cursor = <<row + k - 1, Len(chunk[k])>>]
    IN push_history(t1, ta, <<row, col>>)

\* insert_yank that pastes only the first line of a chunk.
insert_yank_first_line(t0) == insert_piece(t0, t0.yank.text[1])

\* paste after its delete_selection: insert the yanked text at the cursor.
insert_yank(t0) ==
    IF t0.yank.chunk THEN insert_chunk(t0, t0.yank.text)
    ELSE insert_piece(t0, t0.yank.text[1])

paste(ta) == insert_yank(delete_selection(ta, FALSE).ta)

delete_newline(ta) ==
    LET row == Row(ta)
    IN IF row = 0 THEN ta
       ELSE LET prev == ta.lines[row]
                newLines == SubSeq(ta.lines, 1, row - 1)
                            \o << prev \o ta.lines[row + 1] >>
                            \o SubSeq(ta.lines, row + 2, Len(ta.lines))
                t1 == [ta EXCEPT !.lines = newLines, !.cursor = <<row - 1, Len(prev)>>]
            IN push_history(t1, ta, <<row, 0>>)

\* delete_char without its leading delete_selection (the callers below take
\* the selection first).
delete_char_at(ta) ==
    LET row == Row(ta)
        col == Col(ta)
        line == CurLine(ta)
    IN IF col = 0 THEN delete_newline(ta)
       ELSE IF col > Len(line) THEN ta
       ELSE LET t1 == [ta EXCEPT !.lines[row + 1] = Take(line, col - 1) \o Drop(line, col),
                                 !.cursor = <<row, col - 1>>]
            IN push_history(t1, ta, <<row, col>>)

\* What follows a delete_selection d in delete_char.
delete_char_after(d) == IF d.done THEN d.ta ELSE delete_char_at(d.ta)

delete_char(ta) == delete_char_after(delete_selection(ta, FALSE))

\* delete_next_char after its delete_selection: step forward, delete back.
delete_char_if_moved(ta, moved) ==
    IF moved.cursor = ta.cursor THEN ta ELSE delete_char_at(moved)

delete_next_char_at(ta) == delete_char_if_moved(ta, move_cursor(ta, "Forward"))

\* What follows a delete_selection d in delete_next_char.
delete_next_char_after(d) == IF d.done THEN d.ta ELSE delete_next_char_at(d.ta)

delete_next_char(ta) == delete_next_char_after(delete_selection(ta, FALSE))

\* delete_line_by_end after its delete_selection found nothing selected.
delete_line_by_end_at(t0) ==
    LET row == Row(t0)
        col == Col(t0)
        line == CurLine(t0)
    IN IF col < Len(line)
       THEN \* delete_piece(col, usize::MAX)
            LET t1 == [t0 EXCEPT !.lines[row + 1] = Take(line, col),
                                 !.yank = Piece(Drop(line, col))]
            IN push_history(t1, t0, <<row, Len(line)>>)
       ELSE delete_next_char_at(t0)

\* What follows a delete_selection d in delete_line_by_end.
delete_line_by_end_after(d) == IF d.done THEN d.ta ELSE delete_line_by_end_at(d.ta)

delete_line_by_end(ta) == delete_line_by_end_after(delete_selection(ta, FALSE))

undo(ta) ==
    IF ta.index = 0 THEN ta
    ELSE LET edit == ta.edits[ta.index]
         IN [ta EXCEPT !.index = ta.index - 1, !.lines = edit.lb,
                       !.cursor = edit.cb, !.selection_start = NoPos]

redo(ta) ==
    IF ta.index = Len(ta.edits) THEN ta
    ELSE LET edit == ta.edits[ta.index + 1]
         IN [ta EXCEPT !.index = ta.index + 1, !.lines = edit.la,
                       !.cursor = edit.ca, !.selection_start = NoPos]

\* TextArea::input, the default key mappings used in Insert mode.
TextArea_input(ta, input) ==
    CASE input.key = "Enter" -> insert_newline(ta)
      [] IsChar(input) /\ ~input.ctrl -> insert_char(ta, input.key)
      [] input.key = "Backspace" /\ ~input.ctrl -> delete_char(ta)
      [] input = Ctrl("h") -> delete_char(ta)
      [] input = Ctrl("d") -> delete_next_char(ta)
      [] input = Ctrl("k") -> delete_line_by_end(ta)
      [] input = Ctrl("u") -> undo(ta)
      [] input = Ctrl("r") -> redo(ta)
      [] input = Ctrl("y") -> paste(ta)
      [] input = Ctrl("x") -> cut(ta)
      [] input = Ctrl("e") \/ input = Key("End") -> move_cursor(ta, "End")
      [] input = Key("Home") -> move_cursor(ta, "Head")
      [] input = Key("Left") -> move_cursor(ta, "Back")
      [] input = Key("Right") -> move_cursor(ta, "Forward")
      [] input = Key("Up") -> move_cursor(ta, "Up")
      [] input = Key("Down") -> move_cursor(ta, "Down")
      [] input = Ctrl("f") -> move_cursor(ta, "Forward")
      [] input = Ctrl("b") -> move_cursor(ta, "Back")
      [] OTHER -> ta

(***************************************************************************)
(* EditorState: the TextArea, the mode and the pending input.              *)
(***************************************************************************)
VARIABLES editor, mode, pending

edvars == <<editor, mode, pending>>

Normal == [tag |-> "Normal", op |-> ""]
Insert == [tag |-> "Insert", op |-> ""]
Visual == [tag |-> "Visual", op |-> ""]
Operator(c) == [tag |-> "Operator", op |-> c]

IsOperator(md) == md.tag = "Operator"

Nop == [kind |-> "Nop", mode |-> Normal, input |-> InputDefault]
ToMode(md) == [kind |-> "Mode", mode |-> md, input |-> InputDefault]
Pending(input) == [kind |-> "Pending", mode |-> Normal, input |-> input]
Quit == [kind |-> "Quit", mode |-> Normal, input |-> InputDefault]

Ret(ta, tr) == [editor |-> ta, tr |-> tr]

\* The pending operator with the mode change of y forgotten.
PendingOperator_y_stays(ta, md) ==
    CASE md = Operator("y") -> Ret(copy(ta), Nop)
      [] md = Operator("d") -> Ret(cut(ta), ToMode(Normal))
      [] md = Operator("c") -> Ret(cut(ta), ToMode(Insert))
      [] OTHER -> Ret(ta, Nop)

\* "Handle the pending operator": what follows a motion arm of transition.
PendingOperator(ta, md) ==
    CASE md = Operator("y") -> Ret(copy(ta), ToMode(Normal))
      [] md = Operator("d") -> Ret(cut(ta), ToMode(Normal))
      [] md = Operator("c") -> Ret(cut(ta), ToMode(Insert))
      [] OTHER -> Ret(ta, Nop)

\* "At the last line, move to end of the line instead": t2 is the TextArea
\* after the move Down, cursor the position before it.
EndIfAtLastLine(cursor, t2) ==
    IF t2.cursor = cursor THEN move_cursor(t2, "End") ELSE t2

\* SelectLine without the fallback to the line's end at the last line.
SelectLine_no_fallback(ta) ==
    move_cursor(start_selection(move_cursor(ta, "Head")), "Down")

\* SelectLine that always selects to the line's end, never the next line.
SelectLine_to_end(ta) ==
    move_cursor(start_selection(move_cursor(ta, "Head")), "End")

\* The arm of yy, dd and cc: select the current line.
SelectLine(ta) ==
    LET t1 == start_selection(move_cursor(ta, "Head"))
    IN EndIfAtLastLine(t1.cursor, move_cursor(t1, "Down"))

\* The arm of e that never steps past the word's end.
WordEndArm_exclusive(ta, md) == move_cursor(ta, "WordEnd")

\* The moves of the arm of e: to the word's end, and in Operator mode one
\* further, to "include the text under the cursor".
WordEndArm(ta, md) ==
    IF IsOperator(md) THEN move_cursor(move_cursor(ta, "WordEnd"), "Forward")
    ELSE move_cursor(ta, "WordEnd")

\* The match arms of the modes Normal, Visual and Operator, in source order.
CommandArm(ta, md, pend, input) ==
    LET k == input.key
        c == input.ctrl
    IN CASE k = "h" -> PendingOperator(move_cursor(ta, "Back"), md)
         [] k = "j" -> PendingOperator(move_cursor(ta, "Down"), md)
         [] k = "k" -> PendingOperator(move_cursor(ta, "Up"), md)
         [] k = "l" -> PendingOperator(move_cursor(ta, "Forward"), md)
         [] k = "w" -> PendingOperator(move_cursor(ta, "WordForward"), md)
         [] k = "e" /\ ~c -> PendingOperator(WordEndArm(ta, md), md)
         [] k = "b" /\ ~c -> PendingOperator(move_cursor(ta, "WordBack"), md)
         [] k = "^" -> PendingOperator(move_cursor(ta, "Head"), md)
         [] k = "$" -> PendingOperator(move_cursor(ta, "End"), md)
         [] k = "D" -> Ret(delete_line_by_end(ta), ToMode(Normal))
         [] k = "C" -> Ret(cancel_selection(delete_line_by_end(ta)), ToMode(Insert))
         [] k = "p" -> Ret(paste(ta), ToMode(Normal))
         [] k = "u" /\ ~c -> Ret(undo(ta), ToMode(Normal))
         [] k = "r" /\ c -> Ret(redo(ta), ToMode(Normal))
         [] k = "x" -> Ret(delete_next_char(ta), ToMode(Normal))
         [] k = "i" -> Ret(cancel_selection(ta), ToMode(Insert))
         [] k = "a" -> Ret(move_cursor(cancel_selection(ta), "Forward"), ToMode(Insert))
         [] k = "A" -> Ret(move_cursor(cancel_selection(ta), "End"), ToMode(Insert))
         [] k = "o" -> Ret(insert_newline(move_cursor(ta, "End")), ToMode(Insert))
         [] k = "O" -> Ret(move_cursor(insert_newline(move_cursor(ta, "Head")), "Up"),
                           ToMode(Insert))
         [] k = "I" -> Ret(move_cursor(cancel_selection(ta), "Head"), ToMode(Insert))
         [] k = "q" -> Ret(ta, Quit)
         [] k = "e" /\ c -> PendingOperator(scroll(ta, 1), md)
         [] k = "y" /\ c -> PendingOperator(scroll(ta, -1), md)
         [] k = "d" /\ c -> PendingOperator(scroll(ta, height \div 2), md)
         [] k = "u" /\ c -> PendingOperator(scroll(ta, -(height \div 2)), md)
         [] k = "f" /\ c -> PendingOperator(scroll(ta, height), md)
         [] k = "b" /\ c -> PendingOperator(scroll(ta, -height), md)
         [] k = "v" /\ ~c /\ md = Normal -> Ret(start_selection(ta), ToMode(Visual))
         [] k = "V" /\ ~c /\ md = Normal ->
              Ret(move_cursor(start_selection(move_cursor(ta, "Head")), "End"),
                  ToMode(Visual))
         [] (k = "Esc" \/ (k = "v" /\ ~c)) /\ md = Visual ->
              Ret(cancel_selection(ta), ToMode(Normal))
         [] k = "g" /\ ~c /\ pend.key = "g" /\ ~pend.ctrl ->
              PendingOperator(move_cursor(ta, "Top"), md)
         [] k = "G" /\ ~c -> PendingOperator(move_cursor(ta, "Bottom"), md)
         [] IsChar(input) /\ ~c /\ md = Operator(k) ->
              PendingOperator(SelectLine(ta), md)
         [] k \in {"y", "d", "c"} /\ ~c /\ md = Normal ->
              Ret(start_selection(ta), ToMode(Operator(k)))
         [] k = "y" /\ ~c /\ md = Visual ->
              Ret(copy(move_cursor(ta, "Forward")), ToMode(Normal))
         [] k = "d" /\ ~c /\ md = Visual ->
              Ret(cut(move_cursor(ta, "Forward")), ToMode(Normal))
         [] k = "c" /\ ~c /\ md = Visual ->
              Ret(cut(move_cursor(ta, "Forward")), ToMode(Insert))
         [] OTHER -> Ret(ta, Pending(input))

\* InsertArm that leaves Insert mode on Escape only, not on Ctrl-c.
InsertArm_esc_only(ta, input) ==
    IF input.key = "Esc" THEN Ret(ta, ToMode(Normal))
    ELSE Ret(TextArea_input(ta, input), ToMode(Insert))

InsertArm(ta, input) ==
    IF input.key = "Esc" \/ input = Ctrl("c") THEN Ret(ta, ToMode(Normal))
    ELSE Ret(TextArea_input(ta, input), ToMode(Insert))

\* transition with an Escape that cancels a pending operator.
transition_esc_cancels_operator(ta, md, pend, input) ==
    IF input.key = "Null" THEN Ret(ta, Nop)
    ELSE IF md = Insert THEN InsertArm(ta, input)
    ELSE IF input.key = "Esc" /\ IsOperator(md)
    THEN Ret(cancel_selection(ta), ToMode(Normal))
    ELSE CommandArm(ta, md, pend, input)

\* transition without the early return on the Null key.
transition_without_null_return(ta, md, pend, input) ==
    IF md = Insert THEN InsertArm(ta, input)
    ELSE CommandArm(ta, md, pend, input)

transition(ta, md, pend, input) ==
    IF input.key = "Null" THEN Ret(ta, Nop)
    ELSE IF md = Insert THEN InsertArm(ta, input)
    ELSE CommandArm(ta, md, pend, input)

\* match_transition that keeps the pending input when the mode changes.
match_transition_keeps_pending(st, r) ==
    [editor |-> r.editor,
     mode |-> IF r.tr.kind = "Mode" THEN r.tr.mode ELSE st.mode,
     pending |-> IF r.tr.kind = "Pending" THEN r.tr.input ELSE st.pending,
     result |-> r.tr.kind = "Quit"]

\* match_transition that forgets to store a pending input.
match_transition_drops_pending(st, r) ==
    [editor |-> r.editor,
     mode |-> IF r.tr.kind = "Mode" THEN r.tr.mode ELSE st.mode,
     pending |-> IF r.tr.kind = "Mode" /\ st.mode # r.tr.mode
                 THEN InputDefault ELSE st.pending,
     result |-> r.tr.kind = "Quit"]

\* The match of EditorState::input on the transition r.tr; r.editor is the
\* TextArea the transition left.
match_transition(st, r) ==
    LET tr == r.tr
    IN CASE tr.kind = "Mode" /\ st.mode # tr.mode ->
              [editor |-> r.editor, mode |-> tr.mode, pending |-> InputDefault,
               result |-> FALSE]
         [] tr.kind = "Pending" ->
              [editor |-> r.editor, mode |-> st.mode, pending |-> tr.input,
               result |-> FALSE]
         [] tr.kind = "Quit" ->
              [editor |-> r.editor, mode |-> st.mode, pending |-> st.pending,
               result |-> TRUE]
         [] OTHER ->
              [editor |-> r.editor, mode |-> st.mode, pending |-> st.pending,
               result |-> FALSE]

\* EditorState::input on the state st = [editor, mode, pending]: the state
\* afterwards, with the value input returns in the field `result`.
input(st, in) ==
    match_transition(st, transition(st.editor, st.mode, st.pending, in))

\* The concatenation of the lines from the i-th on, nothing between them.
RECURSIVE push_str(_, _)
push_str(lines, i) ==
    IF i > Len(lines) THEN <<>> ELSE lines[i] \o push_str(lines, i + 1)

\* EditorState::text: the text handed to the host, as its characters.
text(st) == push_str(st.editor.lines, 1)

State == [editor |-> editor, mode |-> mode, pending |-> pending, result |-> FALSE]

(***************************************************************************)
(* The chat host (src/src/chat_widget.rs, src/src/main.rs): ChatState with *)
(* its own mode, the history it shows and the list's selection, the        *)
(* selector that App::input gives the events to while it is open, and      *)
(* App's exit flag.  A history is kept as the number of its messages.      *)
(* `chat` is the history of libmoon's Chat, which the handlers and the     *)
(* asynchronous updates change and ChatState copies.                       *)
(***************************************************************************)
VARIABLES input_mode, history, selected, num_elements, chat, selector, exit, panicked

chatvars == <<input_mode, history, selected, num_elements, chat, selector, exit, panicked>>

vars == <<edvars, chatvars>>

\* What EditorState::input answers to the host: the match of ChatState::input
\* tells Ok and Quit from the rest.
EditorResults == {"Ok", "Quit", "Other"}

\* The key codes the host tells apart, and one it does not ("x").
KeyCodes ==
    {"i", "b", "s", "Esc", "Enter", "h", "j", "k", "l", "y", "d", "e", "x",
     "Left", "Down", "Up", "Right"}

ChatState == [input_mode |-> input_mode, history |-> history, selected |-> selected,
              num_elements |-> num_elements]

\* The answer of a handler: the ChatState, the Chat's history, the command
\* returned to App::input and whether an index was out of range.
Answer(cs, ch, command) == [cs |-> cs, chat |-> ch, command |-> command, panic |-> FALSE]

update_history(cs, ch) == [cs EXCEPT !.history = ch]

selected_to_last(cs) ==
    [cs EXCEPT !.selected = IF cs.history = 0 THEN None ELSE cs.history - 1]

\* ListState::next without infinite scrolling.
list_next(cs) ==
    IF cs.num_elements = 0 THEN cs
    ELSE IF cs.selected = None THEN [cs EXCEPT !.selected = 0]
    ELSE IF cs.selected >= cs.num_elements - 1 THEN cs
    ELSE [cs EXCEPT !.selected = cs.selected + 1]

\* ListState::previous without infinite scrolling.
list_previous(cs) ==
    IF cs.num_elements = 0 THEN cs
    ELSE IF cs.selected = None \/ cs.selected = 0 THEN [cs EXCEPT !.selected = 0]
    ELSE [cs EXCEPT !.selected = cs.selected - 1]

\* message_to_clipboard: history[depth] of the Chat's history.
message_to_clipboard(cs, ch, depth) ==
    [Answer(cs, ch, "None") EXCEPT !.panic = depth >= ch]

\* ChatState::update; ch2 is the Chat's history after the call the key makes
\* on the Chat.
update(cs, ch, code, ch2) ==
    IF cs.selected = None THEN Answer(cs, ch, "None")
    ELSE CASE code \in {"h", "Left", "l", "Right"} ->
                   Answer(update_history(cs, ch2), ch2, "None")
           [] code \in {"j", "Down"} -> Answer(list_next(cs), ch, "None")
           [] code \in {"k", "Up"} -> Answer(list_previous(cs), ch, "None")
           [] code = "y" -> message_to_clipboard(cs, ch, cs.selected)
           [] code = "d" ->
                   Answer(selected_to_last(update_history(cs, ch2)), ch2, "None")
           [] code = "e" ->
                   Answer(IF cs.history > cs.selected
                          THEN [cs EXCEPT !.input_mode = "Editing"] ELSE cs,
                          ch, "None")
           [] OTHER -> Answer(cs, ch, "None")

\* chat_push, and the Ok arm of the Editing mode, which differ in the call
\* they make on the Chat.
chat_push(cs, ch2) ==
    selected_to_last(update_history([cs EXCEPT !.input_mode = "Normal"], ch2))

\* ChatState::input that quits on Enter in Normal mode as well.
ChatState_input_quits_from_normal(cs, ch, code, res, ch2) ==
    CASE cs.input_mode \in {"Normal", "Quiting"} /\ code = "Enter" ->
              Answer(cs, ch, "Quit")
      [] cs.input_mode = "Normal" /\ code = "Esc" ->
              Answer([cs EXCEPT !.input_mode = "Quiting"], ch, "None")
      [] cs.input_mode = "Normal" -> update(cs, ch, code, ch2)
      [] OTHER -> Answer([cs EXCEPT !.input_mode = "Normal"], ch, "None")

\* ChatState::input on a key event: code is the key's code, res the answer
\* of the editor that gets the event in the modes Inputing and Editing, ch2
\* the Chat's history after the call the handler makes on the Chat.
ChatState_input(cs, ch, code, res, ch2) ==
    CASE cs.input_mode = "Normal" ->
              (CASE code = "i" -> Answer([cs EXCEPT !.input_mode = "Inputing"], ch, "None")
                 [] code = "b" -> Answer(cs, ch, "None")
                 [] code = "s" -> Answer(cs, ch, "ToggleSelection")
                 [] code = "Esc" -> Answer([cs EXCEPT !.input_mode = "Quiting"], ch, "None")
                 [] OTHER -> update(cs, ch, code, ch2))
      [] cs.input_mode \in {"Inputing", "Editing"} ->
              (CASE res = "Ok" -> Answer(chat_push(cs, ch2), ch2, "None")
                 [] res = "Quit" -> Answer([cs EXCEPT !.input_mode = "Normal"], ch, "None")
                 [] OTHER -> Answer(cs, ch, "None"))
      [] cs.input_mode = "Quiting" ->
              (CASE code = "Enter" -> Answer(cs, ch, "Quit")
                 [] OTHER -> Answer([cs EXCEPT !.input_mode = "Normal"], ch, "None"))

\* The histories the Chat may have after the call a key's handler makes on
\* it: a message more after add_user_message, another branch from the
\* selected message on after previous, next and add_edit, fewer messages
\* after delete.
ChatAfter(cs, ch, code) ==
    CASE cs.input_mode = "Inputing" -> {IF ch < MaxMsgs THEN ch + 1 ELSE ch}
      [] cs.input_mode = "Editing" ->
              {n \in 1..MaxMsgs : cs.selected = None \/ n > cs.selected}
      [] cs.input_mode = "Normal" /\ code = "d" -> {n \in 0..ch : n < ch \/ ch = 0}
      [] cs.input_mode = "Normal" /\ code \in {"h", "Left", "l", "Right"} ->
              {n \in 0..MaxMsgs : cs.selected = None \/ n > cs.selected}
      [] OTHER -> {ch}

\* SelectorState::handle_input: the selector after the event, and the
\* command.  ok tells whether input_ok finds the selected persona.
handle_input(sel, code, res, ok) ==
    IF sel = "Searching"
    THEN [selector |-> IF res \in {"Ok", "Quit"} THEN "List" ELSE "Searching",
          command |-> "None"]
    ELSE CASE code = "i" -> [selector |-> "Searching", command |-> "None"]
           [] code = "Esc" -> [selector |-> sel, command |-> "ToggleSelection"]
           [] code = "Enter" /\ ok -> [selector |-> sel, command |-> "CharSelection"]
           [] OTHER -> [selector |-> sel, command |-> "None"]

\* The match of App::input on the command.
AppCommandArm(sel, command) ==
    [selector |-> CASE command = "ToggleSelection" ->
                         (IF sel = "None" THEN "List" ELSE "None")
                    [] command = "CharSelection" -> "None"
                    [] OTHER -> sel,
     exit |-> command = "Quit"]

(***************************************************************************)
(* The keys the model presses.  The TextArea's history and yank register   *)
(* multiply every other part of the state, so the keys are pressed in two  *)
(* families, one specification each: Spec presses the motions, the Visual  *)
(* mode and the operators y, d and c (and pastes); SpecUndo presses the    *)
(* editing commands, undo and redo.  AllKeys is every key of either, used  *)
(* where a formula asks what any key would do in a reachable state.        *)
(***************************************************************************)
Keys(S) == {Key(k) : k \in S}

MotionKeys == Keys({"h", "j", "k", "l", "w", "e", "b", "^", "$", "g", "G"})

NormalKeys ==
    MotionKeys \cup Keys({"i", "a", "A", "I", "p", "v", "V", "y", "d", "c", "q", "Null"})

\* Ctrl-r in Visual mode finds nothing to redo in Spec, whose keys never
\* undo: it leads to Normal mode with the anchor still set.
VisualKeys == MotionKeys \cup Keys({"v", "y", "d", "c", "Esc"}) \cup {Ctrl("r")}

OperatorKeys(op) == MotionKeys \cup Keys({op, "Esc"})

InsertKeys == Keys({"a", " ", "$", "Enter", "Esc"})

\* The scroll requests.
ScrollKeys == {Ctrl(k) : k \in {"e", "y", "d", "u", "f", "b"}}

UndoNormalKeys ==
    Keys({"h", "l", "k", "i", "x", "D", "p", "o", "u", "d", "Null"})
    \cup {Ctrl("r"), Ctrl("e"), Ctrl("y")}

UndoOperatorKeys(op) == Keys({"l", op})

UndoInsertKeys == Keys({"a", "Enter", "Esc"})

AllKeys ==
    NormalKeys \cup VisualKeys \cup InsertKeys \cup UndoNormalKeys \cup ScrollKeys
    \cup Keys({"Backspace"}) \cup {Ctrl("c")}

\* ChatState::new on a history of n messages, App::new and the first draw.
HostInit(n) ==
    /\ chat = n
    /\ history = n
    /\ selected = (IF n = 0 THEN None ELSE 0)
    /\ input_mode = "Normal"
    /\ num_elements = n
    /\ selector = "None"
    /\ exit = FALSE
    /\ panicked = FALSE

Init ==
    /\ editor = TextAreaDefault
    /\ mode = Normal
    /\ pending = InputDefault
    /\ HostInit(0)

WithinBounds(ta) ==
    /\ Len(ta.edits) <= MaxHist
    /\ Len(ta.lines) <= MaxLines
    /\ \A i \in 1..Len(ta.lines) : Len(ta.lines[i]) <= MaxLen

\* The EditorState becomes st, and App::run draws it before the next event.
Becomes(st) ==
    /\ WithinBounds(st.editor)
    /\ editor' = render(st.editor)
    /\ mode' = st.mode
    /\ pending' = st.pending
    /\ UNCHANGED chatvars

\* One call of EditorState::input.
Press(in) == Becomes(input(State, in))

KeyInNormal == mode = Normal /\ \E in \in NormalKeys : Press(in)

KeyInVisual == mode = Visual /\ \E in \in VisualKeys : Press(in)

KeyInOperator == IsOperator(mode) /\ \E in \in OperatorKeys(mode.op) : Press(in)

KeyInInsert == mode = Insert /\ \E in \in InsertKeys : Press(in)

Next == KeyInNormal \/ KeyInVisual \/ KeyInOperator \/ KeyInInsert

Spec == Init /\ [][Next]_vars

EditInNormal == mode = Normal /\ \E in \in UndoNormalKeys : Press(in)

EditInOperator == IsOperator(mode) /\ \E in \in UndoOperatorKeys(mode.op) : Press(in)

EditInInsert == mode = Insert /\ \E in \in UndoInsertKeys : Press(in)

NextUndo == EditInNormal \/ EditInOperator \/ EditInInsert

SpecUndo == Init /\ [][NextUndo]_vars

\* The host's variables become what the handler's answer a and App::input's
\* arm app say, and App::run draws: the list, drawn in the chat's modes
\* Normal and Inputing while no selector is open, learns the history's
\* length.
HostBecomes(a, app) ==
    /\ input_mode' = a.cs.input_mode
    /\ history' = a.cs.history
    /\ selected' = a.cs.selected
    /\ chat' = a.chat
    /\ panicked' = a.panic
    /\ selector' = app.selector
    /\ exit' = app.exit
    /\ num_elements' =
          (IF ~a.panic /\ ~app.exit /\ app.selector = "None"
              /\ a.cs.input_mode \in {"Normal", "Inputing"}
           THEN a.cs.history ELSE a.cs.num_elements)
    /\ UNCHANGED edvars

HostStep(a) == HostBecomes(a, AppCommandArm(selector, a.command))

Running == ~exit /\ ~panicked

\* App::input while no selector is open: the key goes to ChatState::input.
KeyToChat ==
    /\ Running
    /\ selector = "None"
    /\ \E code \in KeyCodes, res \in EditorResults :
          \E ch2 \in ChatAfter(ChatState, chat, code) :
              HostStep(ChatState_input(ChatState, chat, code, res, ch2))

\* ChatState::update_list, which App::input calls after a persona was chosen.
update_list(cs, ch) == update_history(cs, ch)

\* What the command of the selector does to the chat: CharSelection sets
\* the personas of the Moon, whose Chat then has the history ch2.
SelectorAnswer(r, ch2) ==
    IF r.command = "CharSelection"
    THEN Answer(update_list(ChatState, ch2), ch2, r.command)
    ELSE Answer(ChatState, chat, r.command)

SelectorStep(r, ch2) ==
    HostBecomes(SelectorAnswer(r, ch2), AppCommandArm(r.selector, r.command))

\* App::input while the selector is open: the key goes to
\* SelectorState::handle_input.
KeyToSelector ==
    /\ Running
    /\ selector # "None"
    /\ \E code \in KeyCodes, res \in EditorResults, ok \in BOOLEAN, ch2 \in 0..MaxMsgs :
          SelectorStep(handle_input(selector, code, res, ok), ch2)

\* ChatState::update_status: the history is the Chat's, the rest is kept.
update_status(cs, ch) == [cs EXCEPT !.history = ch]

\* The other branch of App::run's select: an update of the Moon has come,
\* the Chat may have a message more, and ChatState::update_status copies
\* its history.
MoonRecv ==
    /\ Running
    /\ \E ch2 \in {chat, IF chat < MaxMsgs THEN chat + 1 ELSE chat} :
          HostBecomes(Answer(update_status(ChatState, ch2), ch2, "None"),
                      [selector |-> selector, exit |-> FALSE])

InitChat ==
    /\ editor = TextAreaDefault
    /\ mode = Normal
    /\ pending = InputDefault
    /\ \E n \in 0..MaxMsgs : HostInit(n)

NextChat == KeyToChat \/ KeyToSelector \/ MoonRecv

SpecChat == InitChat /\ [][NextChat]_vars

(***************************************************************************)
(* Properties.  A formula that asks what a key, or a sequence of keys,     *)
(* does in a reachable state applies EditorState::input to that state.     *)
(***************************************************************************)
RECURSIVE Run(_, _)
Run(st, keys) ==
    IF keys = <<>> THEN st ELSE Run(input(st, Key(Head(keys))), Tail(keys))

\* Escape when a command has ended in Insert mode.
BackToNormal(st) == IF st.mode = Insert THEN input(st, Key("Esc")) ELSE st

LastEdit == editor.edits[editor.index]

\* The text of a range, joined: the lines before it, the line made of what
\* is left of its first and last line, the lines after it.
RemoveRange(lines, s, e) ==
    SubSeq(lines, 1, s[1])
    \o << Take(lines[s[1] + 1], s[2]) \o Drop(lines[e[1] + 1], e[2]) >>
    \o SubSeq(lines, e[1] + 2, Len(lines))

\* C1: the buffer has at least one line in every reachable state and after
\* any further key; d,d on a single-line buffer leaves exactly one empty line.
C1_AtLeastOneLine ==
    /\ Len(editor.lines) >= 1
    /\ \A in \in AllKeys : Len(input(State, in).editor.lines) >= 1
    /\ (mode = Normal /\ Len(editor.lines) = 1)
         => Run(State, <<"d", "d">>).editor.lines = << <<>> >>

\* A single non-empty line has been cut whole, leaving one empty line.
C1_Witness ==
    /\ mode = Normal
    /\ editor.lines = << <<>> >>
    /\ editor.index >= 1
    /\ Len(LastEdit.lb) = 1
    /\ LastEdit.lb[1] # <<>>
    /\ LastEdit.la = << <<>> >>
    /\ editor.yank = Piece(LastEdit.lb[1])

CursorInBounds(ta) ==
    /\ Row(ta) >= 0
    /\ Row(ta) < Len(ta.lines)
    /\ Col(ta) >= 0
    /\ Col(ta) <= Len(CurLine(ta))

\* C2: in every reachable state, and after any further key in it, the cursor
\* is on a line of the buffer and at a column from 0 to that line's length.
C2_CursorInBounds ==
    /\ CursorInBounds(editor)
    /\ \A in \in AllKeys : CursorInBounds(input(State, in).editor)

\* The cursor is at the end of the last of several lines, below a shorter
\* line, and j is refused there while k clamps the column.
C2_Witness ==
    /\ mode = Normal
    /\ Len(editor.lines) >= 2
    /\ Row(editor) = Len(editor.lines) - 1
    /\ Col(editor) = Len(CurLine(editor))
    /\ Len(editor.lines[Row(editor)]) < Col(editor)
    /\ input(State, Key("j")).editor.cursor = editor.cursor
    /\ input(State, Key("k")).editor.cursor
         = <<Row(editor) - 1, Len(editor.lines[Row(editor)])>>

\* C3: outside Insert mode, on a non-empty line, the cursor column is at
\* most the line's length minus one.
C3_ColumnClampedOutsideInsert ==
    (mode # Insert /\ CurLine(editor) # <<>>)
        => Col(editor) <= Len(CurLine(editor)) - 1

\* The mutating commands of Normal mode, as key sequences.
MutatingCommands ==
    { <<"x">>, <<"D">>, <<"C">>, <<"p">>, <<"o">>, <<"O">>,
      <<"d", "d">>, <<"c", "c">>, <<"d", "w">>, <<"c", "w">>, <<"d", "l">>,
      <<"d", "h">>, <<"d", "$">>, <<"d", "k">>, <<"v", "d">>, <<"v", "l", "c">> }

\* C4: in Normal mode, a mutating command (followed by Escape when it ends
\* in Insert) and then u restore the buffer lines and the cursor to what they
\* were before the command.
C4_UndoRoundTrip ==
    mode = Normal =>
        \A cmd \in MutatingCommands :
            LET s == input(BackToNormal(Run(State, cmd)), Key("u"))
            IN /\ s.editor.lines = editor.lines
               /\ s.editor.cursor = editor.cursor

MotionTokens == Keys({"h", "j", "k", "l", "w", "b", "e", "^", "$", "G"})

\* C6: in Operator(op) every motion key, and g when a g is pending, resolves
\* the operator in that step: the mode becomes Normal for y and d and Insert
\* for c, the pending input is Null and no selection anchor is left.
C6_MotionResolvesOperator ==
    IsOperator(mode) =>
        \A in \in MotionTokens \cup (IF pending = Key("g") THEN {Key("g")} ELSE {}) :
            LET s == input(State, in)
            IN /\ s.mode = (IF mode.op = "c" THEN Insert ELSE Normal)
               /\ s.pending = InputDefault
               /\ s.editor.selection_start = NoPos

\* The operator c has cut a range and left the editor in Insert mode.
C6_Witness ==
    /\ mode = Insert
    /\ pending = InputDefault
    /\ editor.selection_start = NoPos
    /\ editor.index >= 1
    /\ LastEdit.la = editor.lines
    /\ PosLess(LastEdit.ca, LastEdit.cb)
    /\ LastEdit.la = RemoveRange(LastEdit.lb, LastEdit.ca, LastEdit.cb)
    /\ editor.yank = RangeYank(LastEdit.lb, LastEdit.ca, LastEdit.cb)

\* C7: the doubled operator acts on the whole current line: on a line that
\* is not the last, dd and cc remove the line (one line fewer, the others in
\* order) and the register is the line and its line break; on the last line
\* they empty the line and keep the line count, the register being the
\* line's text; yy takes the same text and leaves the buffer.
C7_DoubledOperator ==
    IsOperator(mode) =>
        LET s == input(State, Key(mode.op))
            lines == editor.lines
            n == Len(lines)
            r == Row(editor)
            line == CurLine(editor)
            last == r + 1 = n
        IN /\ s.editor.yank =
                 (IF ~last THEN Chunk(<<line, <<>>>>)
                  ELSE IF line # <<>> THEN Piece(line)
                  ELSE editor.yank)
           /\ IF mode.op = "y" THEN s.editor.lines = lines
              ELSE IF ~last
              THEN /\ s.editor.lines = SubSeq(lines, 1, r) \o SubSeq(lines, r + 2, n)
                   /\ Len(s.editor.lines) = n - 1
              ELSE /\ s.editor.lines = [lines EXCEPT ![r + 1] = <<>>]
                   /\ Len(s.editor.lines) = n

\* dd has removed a non-empty line that was not the last.
C7_Witness ==
    /\ mode = Normal
    /\ editor.index >= 1
    /\ LastEdit.la = editor.lines
    /\ Len(LastEdit.la) = Len(LastEdit.lb) - 1
    /\ LastEdit.ca[2] = 0
    /\ LastEdit.cb = <<LastEdit.ca[1] + 1, 0>>
    /\ LastEdit.lb[LastEdit.ca[1] + 1] # <<>>
    /\ editor.yank = Chunk(<<LastEdit.lb[LastEdit.ca[1] + 1], <<>>>>)

AlphaNumeric == {"a"}

KindOf(c) ==
    IF c = " " THEN "space" ELSE IF c \in AlphaNumeric THEN "word" ELSE "other"

StartsWord(lines, q) ==
    /\ q[2] < Len(lines[q[1] + 1])
    /\ KindOf(lines[q[1] + 1][q[2] + 1]) # "space"
    /\ q[2] = 0 \/ KindOf(lines[q[1] + 1][q[2]]) # KindOf(lines[q[1] + 1][q[2] + 1])

Positions(lines) ==
    UNION {{<<r, c>> : c \in 0..Len(lines[r + 1])} : r \in 0..(Len(lines) - 1)}

WordStartsAfter(lines, pos) ==
    {q \in Positions(lines) : PosLess(pos, q) /\ StartsWord(lines, q)}

FirstPos(S) == CHOOSE q \in S : \A o \in S : q = o \/ PosLess(q, o)

DeleteWordEnd(lines, pos) ==
    LET onLine == {q \in WordStartsAfter(lines, pos) : q[1] = pos[1]}
    IN IF onLine # {} THEN FirstPos(onLine)
       ELSE IF pos[1] + 1 < Len(lines) THEN <<pos[1] + 1, 0>>
       ELSE <<pos[1], Len(lines[pos[1] + 1])>>

PosAfter(lines, pos) ==
    IF pos[2] < Len(lines[pos[1] + 1]) THEN <<pos[1], pos[2] + 1>>
    ELSE IF pos[1] + 1 < Len(lines) THEN <<pos[1] + 1, 0>>
    ELSE pos

\* C10: in Visual mode y puts into the register the text from the earlier of
\* anchor and cursor through the character under the later one, leaves the
\* buffer, clears the selection and returns to Normal.
C10_VisualYankInclusive ==
    (mode = Visual /\ editor.selection_start # NoPos) =>
        LET s == input(State, Key("y"))
            a == editor.selection_start
            c == editor.cursor
            lo == IF PosLess(c, a) THEN c ELSE a
            hi == IF PosLess(c, a) THEN a ELSE c
            to == PosAfter(editor.lines, hi)
        IN /\ s.mode = Normal
           /\ s.editor.lines = editor.lines
           /\ s.editor.selection_start = NoPos
           /\ lo # to => s.editor.yank = RangeYank(editor.lines, lo, to)

\* The editor of a fresh EditorState after i and the characters of the
\* single line it holds, each typed at the line's end, and nothing else.
TypedFromFresh ==
    /\ mode = Insert
    /\ pending = InputDefault
    /\ Len(editor.lines) = 1
    /\ Len(editor.lines[1]) >= 1
    /\ editor.cursor = <<0, Len(editor.lines[1])>>
    /\ editor.selection_start = NoPos
    /\ editor.yank = Piece(<<>>)
    /\ editor.index = Len(editor.lines[1])
    /\ Len(editor.edits) = editor.index
    /\ \A i \in 1..editor.index :
          /\ editor.edits[i].lb = << Take(editor.lines[1], i - 1) >>
          /\ editor.edits[i].la = << Take(editor.lines[1], i) >>

\* C11: from a fresh editor, i, then n >= 1 characters, then Escape yield the
\* single line of these characters, the mode Normal and the cursor at
\* column n - 1.
C11_InsertRound ==
    TypedFromFresh =>
        LET s == input(State, Key("Esc"))
        IN /\ s.editor.lines = editor.lines
           /\ s.mode = Normal
           /\ s.editor.cursor = <<0, Len(editor.lines[1]) - 1>>

\* C12: in Normal mode with no g pending, g changes nothing but the pending
\* input, which becomes g; a second g then moves the cursor to line 0, and G
\* (after them, or at once) moves it to the last line; the buffer and the
\* mode stay as they are throughout.
C12_GotoFirstAndLastLine ==
    (mode = Normal /\ pending # Key("g")) =>
        LET s1 == input(State, Key("g"))
            s2 == input(s1, Key("g"))
            s3 == input(s2, Key("G"))
            sG == input(State, Key("G"))
            last == Len(editor.lines) - 1
        IN /\ s1.editor = editor /\ s1.mode = Normal /\ s1.pending = Key("g")
           /\ ~s1.result
           /\ Row(s2.editor) = 0 /\ s2.editor.lines = editor.lines
           /\ s2.mode = Normal
           /\ Row(s3.editor) = last /\ s3.editor.lines = editor.lines
           /\ s3.mode = Normal
           /\ Row(sG.editor) = last /\ sG.editor.lines = editor.lines
           /\ sG.mode = Normal

\* With g pending the cursor is on the first of several lines, and G takes
\* it from there to the last line.
C12_Witness ==
    /\ mode = Normal
    /\ pending = Key("g")
    /\ Len(editor.lines) >= 2
    /\ Row(editor) = 0
    /\ Row(input(State, Key("G")).editor) = Len(editor.lines) - 1
    /\ Row(input(State, Key("g")).editor) = 0

\* C13: the Null key, with or without Ctrl, changes nothing in any mode:
\* TextArea (lines, cursor, anchor, register, history), mode and pending
\* input stay as they are, and input returns false.
C13_NullIsNoOp ==
    \A in \in {Key("Null"), Ctrl("Null")} : input(State, in) = State

\* An operator is pending together with a g, after an edit and a yank: Null
\* leaves all of it in place.
C13_Witness ==
    /\ IsOperator(mode)
    /\ pending = Key("g")
    /\ editor.selection_start # NoPos
    /\ editor.index >= 1
    /\ editor.yank # Piece(<<>>)
    /\ input(State, Key("Null")).pending = Key("g")
    /\ input(State, Key("Null")).editor = editor

\* C14: input returns true only for q in Normal mode; every other pair of
\* mode and key makes it return false; and a call that returns true leaves
\* the mode and the buffer as they were.
C14_QuitOnlyFromNormal ==
    \A in \in AllKeys :
        LET s == input(State, in)
        IN /\ s.result => (mode = Normal /\ in = Key("q"))
           /\ s.result => (s.mode = mode /\ s.editor.lines = editor.lines)

\* Keys tried in Insert mode besides Escape and Ctrl-c: the keys of both
\* specifications and the command keys of the other modes.
InsertModeTokens ==
    (AllKeys \cup Keys({"q", "u", "d", "v", "x", "p"}) \cup {Ctrl("r"), Ctrl("u")})
    \ {Key("Null"), Key("Esc"), Ctrl("c")}

\* C15: in Insert mode Escape and Ctrl-c lead to Normal and leave the
\* TextArea as it is; every other key that is not Null goes to
\* TextArea::input, leaves the mode Insert and makes input return false; the
\* command characters q, u, d and v are inserted as text at the cursor.
C15_InsertLeftByEscOrCtrlC ==
    mode = Insert =>
        /\ \A in \in {Key("Esc"), Ctrl("Esc"), Ctrl("c")} :
              LET s == input(State, in)
              IN s.mode = Normal /\ s.editor = editor /\ ~s.result
        /\ \A in \in InsertModeTokens :
              LET s == input(State, in)
              IN /\ s.mode = Insert
                 /\ ~s.result
                 /\ s.editor = TextArea_input(editor, in)
        /\ \A c \in {"q", "u", "d", "v"} :
              input(State, Key(c)).editor.lines =
                 [editor.lines EXCEPT ![Row(editor) + 1] =
                     Take(CurLine(editor), Col(editor)) \o <<c>>
                     \o Drop(CurLine(editor), Col(editor))]

\* In Insert mode the character a, a command of Normal mode, has been
\* inserted as text, and q would be inserted next.
C15_Witness ==
    /\ mode = Insert
    /\ editor.index >= 1
    /\ LastEdit.la = editor.lines
    /\ LastEdit.ca = editor.cursor
    /\ LastEdit.ca = <<LastEdit.cb[1], LastEdit.cb[2] + 1>>
    /\ CurLine(editor)[Col(editor)] = "a"
    /\ Len(LastEdit.la[Row(editor) + 1]) = Len(LastEdit.lb[Row(editor) + 1]) + 1
    /\ input(State, Key("q")).mode = Insert
    /\ Len(input(State, Key("q")).editor.lines[Row(editor) + 1])
         = Len(CurLine(editor)) + 1

\* The call of input that returns true leaves mode and buffer as they were.
QuitChangesNothing ==
    \A in \in AllKeys :
        LET s == input(State, in)
        IN s.result => (s.mode = mode /\ s.editor.lines = editor.lines)

\* C16: in Visual mode Escape and v lead to Normal and clear the selection
\* anchor; the buffer, the cursor, the register and the history stay.
C16_VisualCancelled ==
    mode = Visual =>
        \A in \in {Key("Esc"), Key("v")} :
            LET s == input(State, in)
            IN /\ s.mode = Normal
               /\ s.editor.selection_start = NoPos
               /\ s.editor = [editor EXCEPT !.selection_start = NoPos]
               /\ ~s.result

\* A non-empty selection is held in Visual mode with a text in the register,
\* and Escape drops the anchor and nothing else.
C16_Witness ==
    /\ mode = Visual
    /\ editor.selection_start # NoPos
    /\ editor.selection_start # editor.cursor
    /\ editor.yank # Piece(<<>>)
    /\ input(State, Key("Esc")).mode = Normal
    /\ input(State, Key("Esc")).editor.selection_start = NoPos
    /\ input(State, Key("Esc")).editor.cursor = editor.cursor

\* C17: yanking leaves the buffer: after y and a motion (g,g included), after
\* y,y, and after y in Visual mode, the lines and the history of edits are
\* what they were before the first key of the command.
C17_YankLeavesBuffer ==
    /\ mode = Normal =>
          \A m \in {<<in.key>> : in \in MotionTokens} \cup {<<"y">>, <<"g", "g">>} :
              LET s == Run(State, <<"y">> \o m)
              IN /\ s.editor.lines = editor.lines
                 /\ s.editor.edits = editor.edits
                 /\ s.editor.index = editor.index
                 /\ s.mode = Normal
    /\ mode = Visual =>
          LET s == input(State, Key("y"))
          IN /\ s.editor.lines = editor.lines
             /\ s.editor.edits = editor.edits
             /\ s.editor.index = editor.index
             /\ s.mode = Normal

\* In Normal mode on a buffer of several lines, y and j take two lines'
\* text into the register, which held something else, and leave the lines.
C17_Witness ==
    /\ mode = Normal
    /\ Len(editor.lines) >= 2
    /\ Row(editor) = 0
    /\ CurLine(editor) # <<>>
    /\ Run(State, <<"y", "j">>).editor.yank # editor.yank
    /\ Run(State, <<"y", "j">>).editor.yank.chunk
    /\ Run(State, <<"y", "j">>).editor.lines = editor.lines

\* C18: in Normal mode, without an anchor left behind, with a register that
\* holds text without a line break, p puts that text into the current line right after the character
\* under the cursor and leaves the other lines.
C18_PasteAfterCursor ==
    (/\ mode = Normal
     /\ editor.selection_start = NoPos
     /\ ~editor.yank.chunk
     /\ editor.yank.text[1] # <<>>
     /\ Col(editor) < Len(CurLine(editor))) =>
        input(State, Key("p")).editor.lines =
            [editor.lines EXCEPT ![Row(editor) + 1] =
                Take(CurLine(editor), Col(editor) + 1) \o editor.yank.text[1]
                \o Drop(CurLine(editor), Col(editor) + 1)]

\* What p does with such a register: the text goes in at the cursor column,
\* before the character under the cursor.
PasteAtCursor ==
    (/\ mode = Normal
     /\ editor.selection_start = NoPos
     /\ ~editor.yank.chunk
     /\ editor.yank.text[1] # <<>>) =>
        input(State, Key("p")).editor.lines =
            [editor.lines EXCEPT ![Row(editor) + 1] =
                Take(CurLine(editor), Col(editor)) \o editor.yank.text[1]
                \o Drop(CurLine(editor), Col(editor))]

\* The lines joined with a line break between consecutive lines.
RECURSIVE JoinedWithNewlines(_, _)
JoinedWithNewlines(lines, i) ==
    IF i > Len(lines) THEN <<>>
    ELSE IF i = Len(lines) THEN lines[i]
    ELSE lines[i] \o <<"\n">> \o JoinedWithNewlines(lines, i + 1)

\* The buffer with the last character of its first line moved to the front
\* of its second line: ["ab", "c"] becomes ["a", "bc"].
ShiftedBreak(lines) ==
    [lines EXCEPT ![1] = Take(lines[1], Len(lines[1]) - 1),
                  ![2] = <<lines[1][Len(lines[1])]>> \o lines[2]]

\* C19: the text handed to the host is the buffer's lines joined with a line
\* break between consecutive lines, so that a buffer of several lines and the
\* same buffer with its first line break shifted give different texts.
C19_TextJoinsWithNewlines ==
    /\ text(State) = JoinedWithNewlines(editor.lines, 1)
    /\ (Len(editor.lines) >= 2 /\ editor.lines[1] # <<>>) =>
          text(State) # text([State EXCEPT !.editor.lines = ShiftedBreak(editor.lines)])

\* C20: a selection anchor is set only in Visual mode (and while an operator
\* is pending): no state of mode Normal or Insert has one, be it a reachable
\* state or the state a further key leads to, u, Ctrl-r, x, p, D, o and O
\* among the keys.
C20_AnchorOnlyInVisual ==
    /\ mode \in {Normal, Insert} => editor.selection_start = NoPos
    /\ \A in \in AllKeys \cup Keys({"O", "C"}) :
          LET s == input(State, in)
          IN s.mode \in {Normal, Insert} => s.editor.selection_start = NoPos

\* The keys that leave a selection anchor behind, in Normal or Insert mode,
\* in some reachable state.
AnchorLeftBy(in) ==
    LET s == input(State, in)
    IN s.mode \in {Normal, Insert} /\ s.editor.selection_start # NoPos

\* From a state whose anchor is where the modes allow it, only u and Ctrl-r
\* leave an anchor behind, and only when the history has nothing to undo or
\* to redo; Insert mode never has one.
AnchorLeftOnlyByIdleUndoRedo ==
    /\ mode = Insert => editor.selection_start = NoPos
    /\ ~(mode = Normal /\ editor.selection_start # NoPos) =>
          \A in \in AllKeys \cup Keys({"O", "C"}) :
              AnchorLeftBy(in) =>
                  \/ in = Key("u") /\ editor.index = 0
                  \/ in = Ctrl("r") /\ editor.index = Len(editor.edits)

\* C21: in Normal, Visual and OperatorPending mode each scroll request
\* (Ctrl-e, Ctrl-y, Ctrl-d, Ctrl-u, Ctrl-f, Ctrl-b) leaves the lines, the
\* register and the mode as they were.
C21_ScrollPassThrough ==
    mode # Insert =>
        \A in \in ScrollKeys :
            /\ input(State, in).editor.lines = editor.lines
            /\ input(State, in).editor.yank = editor.yank
            /\ input(State, in).mode = mode

\* Outside OperatorPending the scroll requests do leave the lines, the
\* register, the history and the mode; they may move the cursor into the
\* viewport.
ScrollPassThroughOutsideOperator ==
    mode \in {Normal, Visual} =>
        \A in \in ScrollKeys :
            /\ input(State, in).editor.lines = editor.lines
            /\ input(State, in).editor.yank = editor.yank
            /\ input(State, in).editor.edits = editor.edits
            /\ input(State, in).mode = mode
            /\ input(State, in).pending = pending
            /\ ~input(State, in).result

\* In OperatorPending a scroll request applies the operator: the mode is left
\* for Normal (y, d) or Insert (c).
ScrollEndsOperator ==
    IsOperator(mode) =>
        \A in \in ScrollKeys :
            input(State, in).mode = (IF mode.op = "c" THEN Insert ELSE Normal)

\* The named keys and the letters the claim pairs them with.
NamedMotions ==
    {<<"Left", "h">>, <<"Right", "l">>, <<"Down", "j">>, <<"Up", "k">>,
     <<"Home", "^">>, <<"End", "$">>}

\* C22: in Normal mode each of the named keys Left, Right, Down, Up, Home and
\* End leads to the same cursor, lines, mode and pending token as h, l, j,
\* k, ^ and $.
C22_NamedKeysAsLetters ==
    mode = Normal =>
        \A p \in NamedMotions :
            /\ input(State, Key(p[1])).editor.cursor = input(State, Key(p[2])).editor.cursor
            /\ input(State, Key(p[1])).editor.lines = input(State, Key(p[2])).editor.lines
            /\ input(State, Key(p[1])).mode = input(State, Key(p[2])).mode
            /\ input(State, Key(p[1])).pending = input(State, Key(p[2])).pending

\* C22, the cursor alone, where the letter does move it.
C22_NamedKeysMoveCursor ==
    mode = Normal =>
        \A p \in NamedMotions :
            input(State, Key(p[1])).editor.cursor = input(State, Key(p[2])).editor.cursor

\* What a named key does outside Insert mode: it becomes the pending token
\* and nothing else changes.
NamedKeysOnlyPending ==
    mode # Insert =>
        \A p \in NamedMotions :
            input(State, Key(p[1])) = [State EXCEPT !.pending = Key(p[1])]

\* C23: Escape in Operator(op) does not cancel the operator: the mode stays
\* Operator(op), the TextArea (lines, register, anchor) is unchanged, input
\* returns false, and the motion key that follows acts as it would have
\* without the Escape.
C23_EscKeepsOperator ==
    IsOperator(mode) =>
        /\ input(State, Key("Esc")).mode = mode
        /\ input(State, Key("Esc")).editor = editor
        /\ ~input(State, Key("Esc")).result
        /\ \A m \in MotionTokens :
              /\ input(input(State, Key("Esc")), m) = input(State, m)
              /\ input(input(State, Key("Esc")), m).mode =
                    (IF mode.op = "c" THEN Insert ELSE Normal)

\* Escape was pressed while d was pending, and the l that follows still
\* deletes the character under the cursor.
C23_Witness ==
    /\ mode = Operator("d")
    /\ pending = Key("Esc")
    /\ editor.selection_start = editor.cursor
    /\ Col(editor) < Len(CurLine(editor))
    /\ input(State, Key("l")).mode = Normal
    /\ input(State, Key("l")).editor.lines # editor.lines
    /\ input(State, Key("l")).editor.yank = Piece(<<CurLine(editor)[Col(editor) + 1]>>)

\* The character at q is the last one of a word.
EndsWord(lines, q) ==
    /\ q[2] < Len(lines[q[1] + 1])
    /\ KindOf(lines[q[1] + 1][q[2] + 1]) # "space"
    /\ \/ q[2] + 1 = Len(lines[q[1] + 1])
       \/ KindOf(lines[q[1] + 1][q[2] + 2]) # KindOf(lines[q[1] + 1][q[2] + 1])

WordEndsAfter(lines, pos) ==
    {q \in Positions(lines) : PosLess(pos, q) /\ EndsWord(lines, q)}

\* Where e goes from pos: the last character of the next word that ends
\* after pos, or the buffer's end when no word ends there.
WordEndTarget(lines, pos) ==
    IF WordEndsAfter(lines, pos) # {} THEN FirstPos(WordEndsAfter(lines, pos))
    ELSE <<Len(lines) - 1, Len(lines[Len(lines)])>>

\* The end of the operator's range: one past the target word's last
\* character.
OperatorWordEnd(lines, pos) ==
    IF WordEndsAfter(lines, pos) # {}
    THEN <<WordEndTarget(lines, pos)[1], WordEndTarget(lines, pos)[2] + 1>>
    ELSE WordEndTarget(lines, pos)

\* C24: in Normal and Visual mode e only moves the cursor to the last
\* character of the target word; in Operator(op) the operator acts on the
\* text from the entry position through that character: d and c remove it and
\* put it into the register, y puts it into the register and leaves the lines.
C24_OperatorWordEndInclusive ==
    /\ mode \in {Normal, Visual} =>
          /\ input(State, Key("e")).editor.cursor = WordEndTarget(editor.lines, editor.cursor)
          /\ input(State, Key("e")).editor.lines = editor.lines
          /\ input(State, Key("e")).editor.yank = editor.yank
          /\ input(State, Key("e")).mode = mode
    /\ IsOperator(mode) =>
          /\ editor.selection_start = editor.cursor
          /\ input(State, Key("e")).mode = (IF mode.op = "c" THEN Insert ELSE Normal)
          /\ input(State, Key("e")).editor.lines =
                (IF mode.op = "y" THEN editor.lines
                 ELSE RemoveRange(editor.lines, editor.cursor,
                                  OperatorWordEnd(editor.lines, editor.cursor)))
          /\ input(State, Key("e")).editor.yank =
                (IF OperatorWordEnd(editor.lines, editor.cursor) = editor.cursor
                 THEN editor.yank
                 ELSE RangeYank(editor.lines, editor.cursor,
                                OperatorWordEnd(editor.lines, editor.cursor)))

\* d is pending on the first character of a word of two characters, and e
\* removes both, while in Normal mode e would stop on the second.
C24_Witness ==
    /\ mode = Operator("d")
    /\ Col(editor) = 0
    /\ Len(CurLine(editor)) = 2
    /\ WordEndTarget(editor.lines, editor.cursor) = <<Row(editor), 1>>
    /\ input(State, Key("e")).editor.lines = [editor.lines EXCEPT ![Row(editor) + 1] = <<>>]
    /\ input(State, Key("e")).editor.yank = Piece(CurLine(editor))
    /\ input([State EXCEPT !.mode = Normal], Key("e")).editor.cursor = <<Row(editor), 1>>

\* The tokens the claim puts between two g: a motion, the Null token and,
\* in Normal mode, a command.
InterveningTokens(md) ==
    Keys({"j", "Null"}) \cup (IF md = Normal THEN Keys({"x"}) ELSE {})

\* C25: in Normal or Visual mode, a g that follows another token than g (a
\* motion such as j, a Null token, a command such as x) only becomes the
\* pending token and does not move the cursor.
C25_SingleGOnlyPends ==
    mode \in {Normal, Visual} =>
        \A t \in InterveningTokens(mode) :
            input(State, t).mode = mode =>
                /\ input(input(State, t), Key("g")).editor.cursor = input(State, t).editor.cursor
                /\ input(input(State, t), Key("g")).pending = Key("g")

\* What decides the move is the pending token, whatever was pressed since it
\* was stored: with a g pending, g goes to the first line; with any other
\* pending token it only becomes the pending token.
GotoTopIffGPending ==
    mode \in {Normal, Visual} =>
        IF pending = Key("g")
        THEN /\ input(State, Key("g")).editor.cursor =
                    <<0, fit_col(Col(editor), editor.lines[1])>>
             /\ input(State, Key("g")).pending = Key("g")
        ELSE input(State, Key("g")) = [State EXCEPT !.pending = Key("g")]

\* A pending g outlives the tokens that leave the mode as it is.
PendingGSurvives ==
    (mode \in {Normal, Visual} /\ pending = Key("g")) =>
        \A t \in InterveningTokens(mode) :
            input(State, t).mode = mode => input(State, t).pending = Key("g")

Modes == {Normal, Insert, Visual} \cup {Operator(c) : c \in {"y", "d", "c"}}

\* Every key the model knows, named keys and capital commands included.
EveryKey == AllKeys \cup Keys(NamedKeys) \cup Keys({"O", "C"})

\* A step from mode md to the state s keeps to the mode graph: Visual and
\* Operator are entered from Normal only, and a change of mode leaves the
\* pending token Null.
ModeStep(md, s) ==
    /\ s.mode \in Modes
    /\ s.mode # md =>
          /\ s.pending = InputDefault
          /\ (s.mode = Visual \/ IsOperator(s.mode)) => md = Normal

\* C26: the mode is Normal, Insert, Visual or Operator(c) with c one of y, d
\* and c; whatever key comes next, Visual and Operator are entered from
\* Normal only, and a step that changes the mode leaves the pending token
\* Null.
C26_ModeGraph ==
    /\ mode \in Modes
    /\ \A in \in EveryKey : ModeStep(mode, input(State, in))

\* A g is pending in Normal mode, and v enters Visual with the pending token
\* reset.
C26_Witness ==
    /\ mode = Normal
    /\ pending = Key("g")
    /\ input(State, Key("v")).mode = Visual
    /\ input(State, Key("v")).pending = InputDefault
    /\ input(State, Key("d")).mode = Operator("d")
    /\ input(State, Key("d")).pending = InputDefault

\* What ChatState::input answers to the key code in the present state, the
\* editor answering res and the Chat having the history ch2 afterwards.
ChatAnswers(code) ==
    {ChatState_input(ChatState, chat, code, res, ch2) :
        res \in EditorResults, ch2 \in ChatAfter(ChatState, chat, code)}

\* C27: ChatState::input returns Quit only in the mode Quiting on Enter;
\* Quiting is entered only by Escape in the chat's Normal mode; any other key
\* in Quiting leads back to Normal and returns no Quit; and the application
\* has exited only from Quiting, with no selector open, never from Inputing
\* or Editing.
C27_QuitProtocol ==
    /\ \A code \in KeyCodes : \A a \in ChatAnswers(code) :
          /\ a.command = "Quit" <=> (input_mode = "Quiting" /\ code = "Enter")
          /\ (a.cs.input_mode = "Quiting" /\ input_mode # "Quiting") =>
                (input_mode = "Normal" /\ code = "Esc")
          /\ (input_mode = "Quiting" /\ code # "Enter") =>
                (a.cs.input_mode = "Normal" /\ a.command = "None")
          /\ input_mode \in {"Inputing", "Editing"} => a.command = "None"
    /\ \A code \in KeyCodes, res \in EditorResults, ok \in BOOLEAN :
          handle_input(selector, code, res, ok).command # "Quit"
    /\ exit => (input_mode = "Quiting" /\ selector = "None")

\* The application has exited: Enter came in the mode Quiting.
C27_Witness ==
    /\ exit
    /\ input_mode = "Quiting"
    /\ ~panicked

\* C28: a selected index is below the history's length, and a history that
\* is not empty has a selected item, whatever key events and asynchronous
\* updates came in whatever order.
C28_SelectionInRange ==
    /\ selected # None => selected < history
    /\ history > 0 => selected # None

====
